---- MODULE Spec2Model ----
(***************************************************************************)
(* A model of dono_server's remote (Youtube) history pipeline:              *)
(* src/src/youtube.rs (identifier extraction, metadata fetch, duration      *)
(* decoding, percent-encoding, the Storage<Song> adapter) and the process   *)
(* bootstrap of src/src/main.rs.                                            *)
(*                                                                          *)
(* A Rust &str is modelled as a sequence of characters, each character a    *)
(* one-element string ("P", "1", ...); a character outside ASCII is named   *)
(* by its code point ("U+00E9").                                            *)
(***************************************************************************)
EXTENDS Integers, Sequences, FiniteSets, TLC

VARIABLES
    period,      \* Duration Decoder: the input of from_iso8601
    decoded,     \* Duration Decoder: its outcome, or NotRun
    data,        \* encode: the input of encode
    encoded,     \* encode: its outcome, or NotRun
    link,        \* extraction: how the submitted string was put together
    extracted,   \* extraction: the outcome of extract_id, or NotRun
    response,    \* fetch: what http_req::request::get comes back with
    fetched,     \* fetch: the outcome of YoutubeItem::fetch, or NotRun
    env_key,     \* whether SHAKEN_YOUTUBE_API_KEY is set in the environment
    api_key,     \* the Lazy cell API_KEY: "uninit" or "ready"
    env_reads,   \* how many times the variable has been read
    proc,        \* the process: "boot", "serving" or "exited"
    youtube,     \* the rows of the remote kind's table, in insertion order
    local,       \* the number of rows of the local kind's table
    ins,         \* the insert in flight on the remote kind, and its outcome
    rd,          \* the latest current/previous/all query and its outcome
    hist         \* history: what every successful insert was made with

vars == <<period, decoded, data, encoded, link, extracted, response, fetched,
          env_key, api_key, env_reads, proc, youtube, local, ins, rd, hist>>

decodeVars == <<period, decoded>>
encodeVars == <<data, encoded>>
extractVars == <<link, extracted>>
fetchVars == <<response, fetched>>
serverVars == <<env_key, api_key, env_reads, proc, youtube, local, ins, rd, hist>>

\* the outcome of a function that has not run yet
NotRun == [done |-> FALSE]

NoLink == [head |-> <<>>, token |-> <<>>, tail |-> <<>>]

NoBody == [json |-> FALSE, hasItems |-> FALSE, items |-> <<>>]

NoResponse == [transport |-> "none", status |-> 0, reason |-> "", body |-> NoBody]

\* nothing has been handed to the decoder, the encoder, the extractor, fetch
DecodeIdle == period = <<>> /\ decoded = NotRun
EncodeIdle == data = <<>> /\ encoded = NotRun
ExtractIdle == link = NoLink /\ extracted = NotRun
FetchIdle == response = NoResponse /\ fetched = NotRun

NoItem == [url |-> NoLink, ts |-> 0]

NoInfo == [title |-> "", duration |-> 0]

NoOutcome == [kind |-> "none", status |-> 0, reason |-> "", title |-> "", duration |-> 0]

IdleInsert ==
    [pc |-> "idle", item |-> NoItem, id |-> <<>>, info |-> NoInfo, resp |-> NoResponse,
     result |-> NoOutcome, base |-> <<>>, stages |-> <<>>]

NoQuery ==
    [op |-> "none", kind |-> "none", cause |-> "", songs |-> <<>>, fault |-> "none",
     hist |-> <<>>, inflight |-> FALSE]

\* the process has not been started
ServerIdle ==
    /\ env_key = FALSE
    /\ api_key = "uninit"
    /\ env_reads = 0
    /\ proc = "off"
    /\ youtube = <<>>
    /\ local = 0
    /\ ins = IdleInsert
    /\ rd = NoQuery
    /\ hist = <<>>

(***************************************************************************)
(* Generic helpers.                                                         *)
(***************************************************************************)
RECURSIVE SeqsUpTo(_, _)
\* every sequence over S of length 0..n
SeqsUpTo(S, n) ==
    IF n = 0 THEN {<<>>}
    ELSE LET shorter == SeqsUpTo(S, n - 1)
         IN  shorter \cup {Append(s, c) : s \in {t \in shorter : Len(t) = n - 1}, c \in S}

RECURSIVE SumTo(_, _)
\* f[1] + ... + f[n]
SumTo(f, n) == IF n = 0 THEN 0 ELSE SumTo(f, n - 1) + f[n]

(***************************************************************************)
(* Characters and UTF-8 widths.                                             *)
(***************************************************************************)
AsciiDigits == <<"0", "1", "2", "3", "4", "5", "6", "7", "8", "9">>

\* char::is_numeric is Unicode-aware: U+00B2 (superscript two) is numeric
\* although no decimal digit.
is_numeric(c) == c \in {AsciiDigits[k] : k \in 1..Len(AsciiDigits)} \cup {"U+00B2"}

IsAsciiDigit(c) == \E k \in 1..Len(AsciiDigits) : AsciiDigits[k] = c

DigitValue(c) == (CHOOSE k \in 1..Len(AsciiDigits) : AsciiDigits[k] = c) - 1

\* the number of bytes of the character's UTF-8 encoding
len_utf8(c) == IF c \in {"U+00E9", "U+00B2"} THEN 2 ELSE 1

\* str::len: the length in bytes
ByteLen(s) == SumTo([k \in 1..Len(s) |-> len_utf8(s[k])], Len(s))

\* the byte offset at which the character of 1-based index k starts
ByteStart(s, k) == SumTo([j \in 1..Len(s) |-> len_utf8(s[j])], k - 1)

\* str::is_char_boundary
is_char_boundary(s, b) ==
    \/ b = ByteLen(s)
    \/ \E k \in 1..Len(s) : ByteStart(s, k) = b

(***************************************************************************)
(* from_iso8601 (youtube.rs:197-211).                                       *)
(***************************************************************************)
\* &period[b..e]: the range is in bytes; Rust panics when b > e, when e is
\* past the end, or when b or e is not a character boundary.
SliceOk(s, b, e) ==
    /\ b <= e
    /\ e <= ByteLen(s)
    /\ is_char_boundary(s, b)
    /\ is_char_boundary(s, e)

SliceChars(s, b, e) ==
    LET idx == {k \in 1..Len(s) : ByteStart(s, k) >= b /\ ByteStart(s, k) < e}
        first == IF idx = {} THEN 1 ELSE CHOOSE k \in idx : \A j \in idx : k <= j
    IN  [k \in 1..Cardinality(idx) |-> s[first + k - 1]]

RECURSIVE DecimalValue(_)
DecimalValue(ds) ==
    IF ds = <<>> THEN 0
    ELSE 10 * DecimalValue(SubSeq(ds, 1, Len(ds) - 1)) + DigitValue(ds[Len(ds)])

\* str::parse::<i64>().unwrap_or(0): an optional sign and one or more ASCII
\* digits; everything else (the empty string included) is an Err, hence 0.
parse_i64_or_0(ds) ==
    LET body == IF ds # <<>> /\ ds[1] \in {"+", "-"} THEN Tail(ds) ELSE ds
        sign == IF ds # <<>> /\ ds[1] = "-" THEN -1 ELSE 1
    IN  IF body # <<>> /\ \A k \in 1..Len(body) : IsAsciiDigit(body[k])
        THEN sign * DecimalValue(body)
        ELSE 0

SecondsPerHour == 3600
SecondsPerMinute == 60

\* the closure `parse`: period[s + 1..e].parse::<i64>().unwrap_or(0)
parse(s, b, e) ==
    IF SliceOk(s, b + 1, e)
    THEN [panic |-> FALSE, value |-> parse_i64_or_0(SliceChars(s, b + 1, e))]
    ELSE [panic |-> TRUE, value |-> 0]

\* one step of the fold: the accumulator st = (a, p), the enumerate index i
\* (0-based, counted in characters) and the character c
iso_fold(s, st, i, c) ==
    LET unit(factor) ==
            LET n == parse(s, st.p, i)
            IN  IF n.panic THEN [a |-> st.a, p |-> st.p, panic |-> TRUE]
                ELSE [a |-> st.a + n.value * factor, p |-> i, panic |-> FALSE]
    IN  IF st.panic THEN st
        ELSE IF is_numeric(c) THEN st
        ELSE IF c = "H" THEN unit(SecondsPerHour)
        ELSE IF c = "M" THEN unit(SecondsPerMinute)
        ELSE IF c = "S" THEN unit(1)
        ELSE [a |-> st.a, p |-> i, panic |-> FALSE]

RECURSIVE iso_scan(_, _)
\* the fold over the first n characters, from (0, 0)
iso_scan(s, n) ==
    IF n = 0 THEN [a |-> 0, p |-> 0, panic |-> FALSE]
    ELSE iso_fold(s, iso_scan(s, n - 1), n - 1, s[n])

from_iso8601(s) ==
    LET st == iso_scan(s, Len(s))
    IN  [panic |-> st.panic, value |-> IF st.panic THEN 0 ELSE st.a]

(***************************************************************************)
(* The decoder run on every short string over DurationAlphabet.             *)
(***************************************************************************)
MaxPeriodLen == 3

DurationAlphabet == {"P", "T", "1", "2", "H", "M", "S", "x", "U+00E9", "U+00B2"}

\* the examples the specification lists, as character sequences
DecodeExamples ==
    { <<"P", "T", "1", "H", "2", "M", "3", "S">>,
      <<"P", "T", "5", "M">>,
      <<"P", "T", "4", "5", "S">>,
      <<"P", "0", "D">>,
      <<>>,
      <<"g", "a", "r", "b", "a", "g", "e">> }

DecodeInputs == SeqsUpTo(DurationAlphabet, MaxPeriodLen) \cup DecodeExamples

InitDecode ==
    /\ period \in DecodeInputs
    /\ decoded = NotRun
    /\ EncodeIdle
    /\ ExtractIdle
    /\ FetchIdle
    /\ ServerIdle

Decode ==
    /\ ~decoded.done
    /\ decoded' = [done |-> TRUE, out |-> from_iso8601(period)]
    /\ UNCHANGED <<period, encodeVars, extractVars, fetchVars, serverVars>>

NextDecode == Decode

SpecDecode == InitDecode /\ [][NextDecode]_vars

\* C5: the Duration Decoder is total: on every input it returns a
\* non-negative integer and never panics.
DecoderIsTotal ==
    decoded.done => (~decoded.out.panic /\ decoded.out.value >= 0)

\* The value the specification gives: for every unit letter, the digit run
\* between the previous boundary (the previous non-digit character, or the
\* start of the string) and the letter, zero when empty or unparsable,
\* times the unit's factor.
UnitFactor(c) ==
    IF c = "H" THEN SecondsPerHour ELSE IF c = "M" THEN SecondsPerMinute ELSE 1

RunBefore(s, i) ==
    LET nondigits == {j \in 1..(i - 1) : ~is_numeric(s[j])}
        boundary == IF nondigits = {} THEN 0
                    ELSE CHOOSE j \in nondigits : \A k \in nondigits : k <= j
    IN  SubSeq(s, boundary + 1, i - 1)

DocumentedSeconds(s) ==
    SumTo([i \in 1..Len(s) |->
              IF s[i] \in {"H", "M", "S"}
              THEN parse_i64_or_0(RunBefore(s, i)) * UnitFactor(s[i])
              ELSE 0],
          Len(s))

\* C6: the value the decoder returns is the sum, over the unit letters, of the
\* digit run before each letter times the unit's factor (whether it returns
\* at all is C5).
DecoderMatchesDocumentedSum ==
    (decoded.done /\ ~decoded.out.panic) =>
        decoded.out.value = DocumentedSeconds(period)

\* the listed examples alone, which the code does satisfy
DecoderExamplesHold ==
    (decoded.done /\ period \in DecodeExamples) =>
        /\ ~decoded.out.panic
        /\ decoded.out.value = DocumentedSeconds(period)
        /\ period = <<"P", "T", "1", "H", "2", "M", "3", "S">> => decoded.out.value = 3723
        /\ period = <<"P", "T", "5", "M">> => decoded.out.value = 300
        /\ period = <<"P", "T", "4", "5", "S">> => decoded.out.value = 45
        /\ period \in {<<"P", "0", "D">>, <<>>, <<"g", "a", "r", "b", "a", "g", "e">>}
              => decoded.out.value = 0

(***************************************************************************)
(* encode (youtube.rs:186-195).                                             *)
(***************************************************************************)
EncodeAlphabet == {"A", "z", "7", "-", "~", " ", "&", "U+000A", "U+00E9", "U+20AC"}

\* `ch as u32`: the character's code point
CodePoint(c) ==
    CASE c = "A" -> 65
      [] c = "z" -> 122
      [] c = "7" -> 55
      [] c = "-" -> 45
      [] c = "~" -> 126
      [] c = " " -> 32
      [] c = "&" -> 38
      [] c = "U+000A" -> 10
      [] c = "U+00E9" -> 233
      [] c = "U+20AC" -> 8364

\* the first match arm: 'A'..='Z' | 'a'..='z' | '0'..='9' | '-' | '_' | '.' | '~'
IsUnreserved(n) ==
    \/ n \in 65..90
    \/ n \in 97..122
    \/ n \in 48..57
    \/ n \in {45, 95, 46, 126}

HexDigits == <<"0", "1", "2", "3", "4", "5", "6", "7", "8", "9", "A", "B", "C", "D", "E", "F">>

RECURSIVE UpperHex(_)
\* {:X}: the uppercase hexadecimal digits of n, without padding
UpperHex(n) ==
    IF n < 16 THEN <<HexDigits[n + 1]>>
    ELSE Append(UpperHex(n \div 16), HexDigits[(n % 16) + 1])

\* {:02X}: at least two digits, padded with zeros on the left
UpperHex02(n) ==
    LET h == UpperHex(n) IN IF Len(h) < 2 THEN <<"0">> \o h ELSE h

\* one step of the fold: what is pushed for the character ch
encode_char(ch) ==
    IF IsUnreserved(CodePoint(ch)) THEN <<ch>>
    ELSE <<"%">> \o UpperHex02(CodePoint(ch))

RECURSIVE encode(_)
encode(s) ==
    IF s = <<>> THEN <<>>
    ELSE encode(SubSeq(s, 1, Len(s) - 1)) \o encode_char(s[Len(s)])

MaxDataLen == 2

EncodeInputs == SeqsUpTo(EncodeAlphabet, MaxDataLen)

InitEncode ==
    /\ data \in EncodeInputs
    /\ encoded = NotRun
    /\ DecodeIdle
    /\ ExtractIdle
    /\ FetchIdle
    /\ ServerIdle

Encode ==
    /\ ~encoded.done
    /\ encoded' = [done |-> TRUE, out |-> encode(data)]
    /\ UNCHANGED <<data, decodeVars, extractVars, fetchVars, serverVars>>

NextEncode == Encode

SpecEncode == InitEncode /\ [][NextEncode]_vars

\* The bytes of the UTF-8 encoding of a code point (below U+10000).
Utf8Bytes(n) ==
    IF n < 128 THEN <<n>>
    ELSE IF n < 2048 THEN <<192 + (n \div 64), 128 + (n % 64)>>
    ELSE <<224 + (n \div 4096), 128 + ((n \div 64) % 64), 128 + (n % 64)>>

\* What the specification gives for one character: each of its bytes, an
\* unreserved byte unchanged and every other byte as % and two hex digits.
PercentEncodedBytes(ch) ==
    LET bs == Utf8Bytes(CodePoint(ch))
        one(b) == IF IsUnreserved(b) THEN <<ch>> ELSE <<"%">> \o UpperHex02(b)
    IN  IF Len(bs) = 1 THEN one(bs[1])
        ELSE IF Len(bs) = 2 THEN one(bs[1]) \o one(bs[2])
        ELSE one(bs[1]) \o one(bs[2]) \o one(bs[3])

RECURSIVE DocumentedEncoding(_)
DocumentedEncoding(s) ==
    IF s = <<>> THEN <<>>
    ELSE DocumentedEncoding(SubSeq(s, 1, Len(s) - 1)) \o PercentEncodedBytes(s[Len(s)])

\* C10: encode maps its input byte by byte: an unreserved byte unchanged,
\* every other byte as '%' and exactly two uppercase hex digits of its value.
EncodeIsBytewisePercentEncoding ==
    encoded.done => encoded.out = DocumentedEncoding(data)

\* the parts of C10 the code does satisfy: ASCII input, and safe strings
EncodeAsciiHolds ==
    (encoded.done /\ \A k \in 1..Len(data) : CodePoint(data[k]) < 128) =>
        /\ encoded.out = DocumentedEncoding(data)
        /\ (\A k \in 1..Len(data) : IsUnreserved(CodePoint(data[k]))) => encoded.out = data

(***************************************************************************)
(* PATTERN (youtube.rs:12-16) and the extraction in insert (61-65).         *)
(*                                                                          *)
(*   (:?^(:?http?.*?youtu(:?\.be|be.com))(:?/|.*?v=))(?P<id>[A-Za-z0-9_-]{11})                                              *)
(*                                                                          *)
(* Every "(:?" opens a capturing group that starts with an optional colon.  *)
(* The search is unanchored, but "^" only matches at offset 0, after the    *)
(* first optional colon matched nothing.  The regex crate's match is the    *)
(* one a backtracking engine finds first: a greedy "?" tries its operand    *)
(* before skipping it, a lazy ".*?" tries the shortest run first, an        *)
(* alternation tries its left branch first.  Each operator below returns    *)
(* the 1-based index at which the group "id" starts, or 0 for no match.     *)
(***************************************************************************)
NewLine == "U+000A"

UpperLetters ==
    {"A", "B", "C", "D", "E", "F", "G", "H", "I", "J", "K", "L", "M",
     "N", "O", "P", "Q", "R", "S", "T", "U", "V", "W", "X", "Y", "Z"}

LowerLetters ==
    {"a", "b", "c", "d", "e", "f", "g", "h", "i", "j", "k", "l", "m",
     "n", "o", "p", "q", "r", "s", "t", "u", "v", "w", "x", "y", "z"}

\* the class [A-Za-z0-9_-]
IsIdChar(c) ==
    c \in UpperLetters \cup LowerLetters \cup {"_", "-"} \/ IsAsciiDigit(c)

IdLen == 11

\* the literal lit at index pos
LiteralAt(s, pos, lit) ==
    /\ pos + Len(lit) - 1 <= Len(s)
    /\ SubSeq(s, pos, pos + Len(lit) - 1) = lit

\* "." at index pos: any character but a line feed
DotAt(s, pos) == pos <= Len(s) /\ s[pos] # NewLine

\* ".*?" over the n characters from pos
DotsAt(s, pos, n) == \A k \in pos..(pos + n - 1) : DotAt(s, k)

\* the first of the alternatives, in order, that matches
FirstMatch(alternatives) ==
    LET hits == {k \in 1..Len(alternatives) : alternatives[k] # 0}
    IN  IF hits = {} THEN 0
        ELSE alternatives[CHOOSE k \in hits : \A j \in hits : k <= j]

\* (?P<id>[A-Za-z0-9_-]{11})
IdAt(s, pos) ==
    IF /\ pos + IdLen - 1 <= Len(s)
       /\ \A k \in pos..(pos + IdLen - 1) : IsIdChar(s[k])
    THEN pos ELSE 0

\* .*?v= and then the id: the shortest run of "." after which both match
LazyQueryAt(s, pos) ==
    LET lit == <<"v", "=">>
        ok == {n \in 0..Len(s) :
                  /\ DotsAt(s, pos, n)
                  /\ LiteralAt(s, pos + n, lit)
                  /\ IdAt(s, pos + n + Len(lit)) # 0}
    IN  IF ok = {} THEN 0
        ELSE IdAt(s, pos + (CHOOSE n \in ok : \A m \in ok : n <= m) + Len(lit))

\* (:?/|.*?v=) and then the id
SeparatorAt(s, pos) ==
    FirstMatch(<<
        IF LiteralAt(s, pos, <<":", "/">>) THEN IdAt(s, pos + 2) ELSE 0,
        IF LiteralAt(s, pos, <<"/">>) THEN IdAt(s, pos + 1) ELSE 0,
        LazyQueryAt(s, pos) >>)

\* (:?\.be|be.com) and then the rest
HostAt(s, pos) ==
    FirstMatch(<<
        IF LiteralAt(s, pos, <<":", ".", "b", "e">>) THEN SeparatorAt(s, pos + 4) ELSE 0,
        IF LiteralAt(s, pos, <<".", "b", "e">>) THEN SeparatorAt(s, pos + 3) ELSE 0,
        IF /\ LiteralAt(s, pos, <<"b", "e">>)
           /\ DotAt(s, pos + 2)
           /\ LiteralAt(s, pos + 3, <<"c", "o", "m">>)
        THEN SeparatorAt(s, pos + 6) ELSE 0 >>)

\* .*?youtu and then the rest: the shortest run of "." after which both match
LazyHostAt(s, pos) ==
    LET lit == <<"y", "o", "u", "t", "u">>
        ok == {n \in 0..Len(s) :
                  /\ DotsAt(s, pos, n)
                  /\ LiteralAt(s, pos + n, lit)
                  /\ HostAt(s, pos + n + Len(lit)) # 0}
    IN  IF ok = {} THEN 0
        ELSE HostAt(s, pos + (CHOOSE n \in ok : \A m \in ok : n <= m) + Len(lit))

\* htt p? .*? youtu and then the rest
SchemeAt(s, pos) ==
    IF ~LiteralAt(s, pos, <<"h", "t", "t">>) THEN 0
    ELSE FirstMatch(<<
             IF LiteralAt(s, pos + 3, <<"p">>) THEN LazyHostAt(s, pos + 4) ELSE 0,
             LazyHostAt(s, pos + 3) >>)

\* PATTERN.captures(url).and_then(|s| s.name("id")): where the id starts
pattern_id_start(s) ==
    FirstMatch(<<
        IF LiteralAt(s, 1, <<":">>) THEN SchemeAt(s, 2) ELSE 0,
        SchemeAt(s, 1) >>)

\* youtube.rs:61-65
extract_id(url) ==
    LET at == pattern_id_start(url)
    IN  IF at # 0
        THEN [ok |-> TRUE, id |-> SubSeq(url, at, at + IdLen - 1)]
        ELSE [ok |-> FALSE, id |-> <<>>, error |-> [kind |-> "InvalidYoutubeUrl", url |-> url]]

(***************************************************************************)
(* Submitted strings: head, id token and tail.                              *)
(***************************************************************************)
Https == <<"h", "t", "t", "p", "s", ":", "/", "/">>
HttpScheme == <<"h", "t", "t", "p", ":", "/", "/">>
YoutuBe == <<"y", "o", "u", "t", "u", ".", "b", "e">>
YoutubeCom == <<"y", "o", "u", "t", "u", "b", "e", ".", "c", "o", "m">>
Www == <<"w", "w", "w", ".">>
WatchV == <<"/", "w", "a", "t", "c", "h", "?", "v", "=">>

\* the three link shapes of the specification: shortened domain, full
\* domain with the id in the path, full domain with the id in the query
AcceptedHeads ==
    { Https \o YoutuBe \o <<"/">>,
      HttpScheme \o YoutuBe \o <<"/">>,
      Https \o YoutubeCom \o <<"/">>,
      Https \o Www \o YoutubeCom \o <<"/">>,
      Https \o Www \o YoutubeCom \o WatchV,
      HttpScheme \o YoutubeCom \o WatchV }

\* strings that are no link of the video host
OtherHeads ==
    { <<>>,
      <<"f", "t", "p", ":", "/", "/">> \o YoutuBe \o <<"/">>,
      Https \o <<"v", "i", "m", "e", "o", ".", "c", "o", "m", "/">>,
      Https \o <<"e", "x", ".", "i", "o", "/", "?", "u", "=">> \o YoutuBe \o <<"/">>,
      <<":">> \o Https \o YoutuBe \o <<"/">>,
      <<"h", "t", "t", " ">> \o YoutuBe \o <<"/">>,
      Https \o <<"y", "o", "u", "t", "u", "b", "e", "x", "c", "o", "m", "/">>,
      Https \o <<NewLine>> \o YoutuBe \o <<"/">> }

Token11 == <<"d", "Q", "w", "4", "w", "9", "W", "g", "X", "c", "Q">>

Tokens ==
    { Token11,
      <<"a", "_", "b", "-", "C", "_", "D", "-", "0", "_", "9">>,
      SubSeq(Token11, 1, IdLen - 1),
      Token11 \o <<"Z">>,
      <<"d", "Q", "w", "4", "w", "!", "W", "g", "X", "c", "Q">>,
      <<>> }

Tails == { <<>>, <<"?", "t", "=", "1">>, <<"&", "t", "=", "1">> }

LinkUrl(l) == l.head \o l.token \o l.tail

Links == [head : AcceptedHeads \cup OtherHeads, token : Tokens, tail : Tails]

InitExtract ==
    /\ link \in Links
    /\ extracted = NotRun
    /\ DecodeIdle
    /\ EncodeIdle
    /\ FetchIdle
    /\ ServerIdle

Extract ==
    /\ ~extracted.done
    /\ extracted' = [done |-> TRUE, out |-> extract_id(LinkUrl(link))]
    /\ UNCHANGED <<link, decodeVars, encodeVars, fetchVars, serverVars>>

NextExtract == Extract

SpecExtract == InitExtract /\ [][NextExtract]_vars

\* the id token is exactly 11 characters from [A-Za-z0-9_-]
WellFormedToken(t) == Len(t) = IdLen /\ \A k \in 1..Len(t) : IsIdChar(t[k])

\* C7: a string whose id token is shorter or longer than 11 characters, or
\* holds a character outside [A-Za-z0-9_-], fails with InvalidSourceError
\* carrying the string unchanged.
ExtractionRejectsMalformedTokens ==
    (extracted.done /\ ~WellFormedToken(link.token)) =>
        /\ ~extracted.out.ok
        /\ extracted.out.error = [kind |-> "InvalidYoutubeUrl", url |-> LinkUrl(link)]

\* the whole of C7 on the strings above: extraction succeeds exactly on the
\* accepted link shapes with a well-formed token, and returns that token
ExtractionIsExact ==
    extracted.done =>
        IF link.head \in AcceptedHeads /\ WellFormedToken(link.token)
        THEN extracted.out.ok /\ extracted.out.id = link.token
        ELSE /\ ~extracted.out.ok
             /\ extracted.out.error = [kind |-> "InvalidYoutubeUrl", url |-> LinkUrl(link)]

\* the direction of C7 the code does satisfy
ExtractionAcceptsEveryLink ==
    (extracted.done /\ link.head \in AcceptedHeads /\ WellFormedToken(link.token)) =>
        (extracted.out.ok /\ extracted.out.id = link.token)

\* a failed extraction carries the submitted string unchanged
ExtractionErrorCarriesUrl ==
    (extracted.done /\ ~extracted.out.ok) =>
        extracted.out.error = [kind |-> "InvalidYoutubeUrl", url |-> LinkUrl(link)]

(***************************************************************************)
(* YoutubeItem::fetch and YoutubeItem::serialize (youtube.rs:119-165).      *)
(*                                                                          *)
(* A response body is modelled by what serde sees in it: whether it is      *)
(* JSON at all, whether the top-level object has the key "items", and for   *)
(* every item whether snippet.title and contentDetails.duration are there   *)
(* as strings.  A JSON string is its text; its token in the body holds a    *)
(* backslash escape exactly when the text has a character JSON must escape. *)
(***************************************************************************)
\* one error value of crate::error::Error, or the Ok value, in one shape
Outcome(kind, status, reason, title, duration) ==
    [kind |-> kind, status |-> status, reason |-> reason,
     title |-> title, duration |-> duration]

Err(kind) == Outcome(kind, 0, "", "", 0)

\* StatusCode::is_success
is_success(status) == status \in 200..299

\* the characters a JSON string token can only hold behind a backslash
JsonMustEscape(text) == text \in {"Say \"Hi\"", "AC\\DC"}

\* A field declared `&'a str` with #[serde(borrow)] (lines 150-157) is
\* deserialized by borrowing from the input: serde_json can lend the slice
\* only when the token holds no escape, and reports an invalid type
\* otherwise.
borrowed_str_ok(text) == ~JsonMustEscape(text)

\* the derived Deserialize of Item (lines 143-149): both members present, as
\* strings that can be borrowed
item_deserializes(item) ==
    /\ item.hasTitle
    /\ item.hasDuration
    /\ borrowed_str_ok(item.title)

\* serde_json::from_slice::<Response> (line 159): every element of items is
\* deserialized, not only the first
response_deserializes(body) ==
    /\ body.json
    /\ body.hasItems
    /\ \A k \in 1..Len(body.items) : item_deserializes(body.items[k])

\* a decoder panic unwinds through serialize and fetch
Panicked == Err("panic")

serialize(body) ==
    IF ~response_deserializes(body) THEN Err("Serialize")
    ELSE IF Len(body.items) = 0 THEN Err("InvalidYoutubeData")
    ELSE LET item == body.items[1]
             seconds == from_iso8601(item.duration)
         IN  IF seconds.panic THEN Panicked
             ELSE Outcome("Ok", 0, "", item.title, seconds.value)

fetch_response_ignoring_status(resp) ==
    IF resp.transport # "ok" THEN Err("HttpClient") ELSE serialize(resp.body)

\* fetch once the query is built (lines 123-134)
fetch_response(resp) ==
    IF resp.transport # "ok" THEN Err("HttpClient")
    ELSE IF ~is_success(resp.status)
         THEN Outcome("HttpResponse", resp.status, resp.reason, "", 0)
    ELSE serialize(resp.body)

(***************************************************************************)
(* Responses of the catalog.                                                *)
(***************************************************************************)
Item(title, duration) ==
    [hasTitle |-> TRUE, title |-> title, hasDuration |-> TRUE, duration |-> duration]

SongItem == Item("Song", <<"P", "T", "5", "M">>)
OtherItem == Item("Other", <<"P", "T", "1", "H", "2", "M", "3", "S">>)
QuotedItem == Item("Say \"Hi\"", <<"P", "T", "4", "5", "S">>)
LiveItem == Item("Live", <<"P", "0", "D">>)
UntitledItem ==
    [hasTitle |-> FALSE, title |-> "", hasDuration |-> TRUE, duration |-> <<"P", "T", "5", "M">>]
OddDurationItem == Item("Odd", <<"S", "5">>)

Items == {SongItem, OtherItem, QuotedItem, LiveItem, UntitledItem, OddDurationItem}

MaxItems == 2

Bodies ==
    {[json |-> FALSE, hasItems |-> FALSE, items |-> <<>>],
     [json |-> TRUE, hasItems |-> FALSE, items |-> <<>>]}
    \cup {[json |-> TRUE, hasItems |-> TRUE, items |-> its] : its \in SeqsUpTo(Items, MaxItems)}

Statuses ==
    { [status |-> 200, reason |-> "OK"],
      [status |-> 204, reason |-> "No Content"],
      [status |-> 403, reason |-> "Forbidden"],
      [status |-> 404, reason |-> "Not Found"] }

Responses ==
    {[transport |-> "error", status |-> 0, reason |-> "", body |-> NoBody]}
    \cup {[transport |-> "ok", status |-> st.status, reason |-> st.reason, body |-> b] :
             st \in Statuses, b \in Bodies}

InitFetch ==
    /\ response \in Responses
    /\ fetched = NotRun
    /\ DecodeIdle
    /\ EncodeIdle
    /\ ExtractIdle
    /\ ServerIdle

Fetch ==
    /\ ~fetched.done
    /\ fetched' = [done |-> TRUE, out |-> fetch_response(response)]
    /\ UNCHANGED <<response, decodeVars, encodeVars, extractVars, serverVars>>

NextFetch == Fetch

SpecFetch == InitFetch /\ [][NextFetch]_vars

\* the shape { items: [ { snippet: { title }, contentDetails: { duration } } ] }
HasDocumentedShape(body) ==
    /\ body.json
    /\ body.hasItems
    /\ \A k \in 1..Len(body.items) : body.items[k].hasTitle /\ body.items[k].hasDuration

\* C8: a fetch that reached the server and returned is decided in this
\* order: a non-2xx status is a RemoteStatusError with the status and the
\* reason, whatever the body; else a body without the documented shape is a
\* DeserializationError; else no items is an EmptyCatalogError; else the
\* result is the first item's title and its decoded duration.
FetchOutcomeOrder ==
    (fetched.done /\ response.transport = "ok" /\ fetched.out # Panicked) =>
        IF ~is_success(response.status)
        THEN fetched.out = Outcome("HttpResponse", response.status, response.reason, "", 0)
        ELSE IF ~HasDocumentedShape(response.body)
        THEN fetched.out = Err("Serialize")
        ELSE IF Len(response.body.items) = 0
        THEN fetched.out = Err("InvalidYoutubeData")
        ELSE /\ fetched.out.kind = "Ok"
             /\ fetched.out.title = response.body.items[1].title
             /\ fetched.out.duration = from_iso8601(response.body.items[1].duration).value

\* the part of C8 the code does satisfy: the order of the checks, for bodies
\* whose strings need no escape
FetchOutcomeOrderUnescaped ==
    (/\ fetched.done
     /\ response.transport = "ok"
     /\ fetched.out # Panicked
     /\ \A k \in 1..Len(response.body.items) : ~JsonMustEscape(response.body.items[k].title)) =>
        IF ~is_success(response.status)
        THEN fetched.out = Outcome("HttpResponse", response.status, response.reason, "", 0)
        ELSE IF ~HasDocumentedShape(response.body)
        THEN fetched.out = Err("Serialize")
        ELSE IF Len(response.body.items) = 0
        THEN fetched.out = Err("InvalidYoutubeData")
        ELSE /\ fetched.out.kind = "Ok"
             /\ fetched.out.title = response.body.items[1].title
             /\ fetched.out.duration = from_iso8601(response.body.items[1].duration).value

(***************************************************************************)
(* The store.  database.rs and the sql/ files are not part of the sources   *)
(* at hand: the table and the four statements follow the specification      *)
(* (one append-only table per kind, rows (rowId, externalId, timestamp,     *)
(* durationSeconds, title), newest first by timestamp, ties unspecified).   *)
(* A statement is atomic: it sees and leaves whole rows.                    *)
(***************************************************************************)
\* sql/youtube/add_video.sql: one new row, with the next row id
add_video_sql(table, p) ==
    Append(table, <<Len(table) + 1, p.vid, p.ts, p.duration, p.title>>)

\* every order of the rows that is newest first; rows of equal timestamp
\* may come in either order
NewestFirst(table) ==
    LET n == Len(table)
        perms == {f \in [1..n -> 1..n] : \A i, j \in 1..n : i # j => f[i] # f[j]}
        sorted == {f \in perms : \A i, j \in 1..n : i < j => table[f[i]][3] >= table[f[j]][3]}
    IN  {[k \in 1..n |-> table[f[k]]] : f \in sorted}

\* sql/youtube/get_all.sql: every row, newest first
get_all_sql(order) == order

\* sql/youtube/get_current.sql: the newest row
get_current_sql(order) == IF Len(order) >= 1 THEN <<order[1]>> ELSE <<>>

\* sql/youtube/get_previous.sql: the row after the newest
get_previous_sql(order) == IF Len(order) >= 2 THEN <<order[2]>> ELSE <<>>

(***************************************************************************)
(* Song and the Storage<Song> adapter Youtube (youtube.rs:26-111).          *)
(***************************************************************************)
\* Song::from_row: the columns 0..4 of the row
from_row(row) ==
    [id |-> row[1], vid |-> row[2], timestamp |-> row[3], duration |-> row[4], title |-> row[5]]

QueryOutcome(kind, cause, songs) == [kind |-> kind, cause |-> cause, songs |-> songs]

\* Connection::query_row(..).map_err(Error::Sql): the first row of the
\* result, rusqlite's QueryReturnedNoRows when there is none
query_row(rows, fault) ==
    IF fault.at # "none" THEN QueryOutcome("Sql", "other", <<>>)
    ELSE IF rows = <<>> THEN QueryOutcome("Sql", "QueryReturnedNoRows", <<>>)
    ELSE QueryOutcome("Ok", "", <<from_row(rows[1])>>)

current_takes_previous(order, fault) == query_row(get_previous_sql(order), fault)

\* Youtube::current (lines 83-91)
current(order, fault) == query_row(get_current_sql(order), fault)

\* Youtube::previous (lines 93-101)
previous(order, fault) == query_row(get_previous_sql(order), fault)

all_runs_current_sql(order, fault) ==
    LET rows == get_current_sql(order)
    IN  QueryOutcome("Ok", "", [k \in 1..Len(rows) |-> from_row(rows[k])])

\* Youtube::all (lines 103-110): a failure of prepare or query_map is
\* returned; a row whose step fails ends the iteration and is dropped by
\* filter_map(|s| s.ok()), so the rows before it are returned as Ok
all(order, fault) ==
    IF fault.at = "query" THEN QueryOutcome("Sql", "other", <<>>)
    ELSE LET rows == get_all_sql(order)
             kept == IF fault.at = "row" THEN fault.row - 1 ELSE Len(rows)
         IN  QueryOutcome("Ok", "", [k \in 1..kept |-> from_row(rows[k])])

add_video_params_no_title(id, item, info) ==
    [vid |-> id, ts |-> item.ts, duration |-> info.duration, title |-> ""]

\* the named parameters of the insert statement (lines 72-77)
add_video_params(id, item, info) ==
    [vid |-> id, ts |-> item.ts, duration |-> info.duration, title |-> info.title]

(***************************************************************************)
(* The process: main (main.rs:16-71), the lazily initialized API_KEY        *)
(* (youtube.rs:18-24) and the requests the server hands to Youtube.         *)
(* server.rs is not part of the sources at hand: requests are taken to      *)
(* arrive while the server runs, an insert on one thread and a query on     *)
(* another.                                                                 *)
(***************************************************************************)
MaxLog == 2
MaxLocalLog == 1

Timestamps == {1, 2}

VimeoHead == Https \o <<"v", "i", "m", "e", "o", ".", "c", "o", "m", "/">>

SubmittedLinks ==
    { [head |-> Https \o YoutuBe \o <<"/">>, token |-> Token11, tail |-> <<>>],
      [head |-> Https \o Www \o YoutubeCom \o WatchV, token |-> Token11 \o <<"Z">>,
       tail |-> <<"&", "t", "=", "1">>],
      [head |-> VimeoHead, token |-> Token11, tail |-> <<>>] }

SubmittedItems == [url : SubmittedLinks, ts : Timestamps]

\* lines 61-65 on every link that is submitted, computed once
SubmittedIds == [l \in SubmittedLinks |-> extract_id(LinkUrl(l))]

OkStatus == [status |-> 200, reason |-> "OK"]

Served(status, body) ==
    [transport |-> "ok", status |-> status.status, reason |-> status.reason, body |-> body]

JsonItems(items) == [json |-> TRUE, hasItems |-> TRUE, items |-> items]

ServedResponses ==
    { [transport |-> "error", status |-> 0, reason |-> "", body |-> NoBody],
      Served([status |-> 404, reason |-> "Not Found"], JsonItems(<<SongItem>>)),
      Served(OkStatus, NoBody),
      Served(OkStatus, JsonItems(<<>>)),
      Served(OkStatus, JsonItems(<<SongItem>>)),
      Served(OkStatus, JsonItems(<<OtherItem, SongItem>>)),
      Served(OkStatus, JsonItems(<<QuotedItem>>)),
      Served(OkStatus, JsonItems(<<OddDurationItem>>)) }

InFlight == {"fetch", "get", "store"}

Init ==
    /\ env_key \in BOOLEAN
    /\ api_key = "uninit"
    /\ env_reads = 0
    /\ proc = "boot"
    /\ youtube = <<>>
    /\ local = 0
    /\ ins = IdleInsert
    /\ rd = NoQuery
    /\ hist = <<>>
    /\ DecodeIdle
    /\ EncodeIdle
    /\ ExtractIdle
    /\ FetchIdle

pureVars == <<decodeVars, encodeVars, extractVars, fetchVars>>

\* main: the config file, the schema, the listener, then server.run().
\* API_KEY is not touched.
Main ==
    /\ proc = "boot"
    /\ \E outcome \in {"no-config", "schema-error", "bind-error", "run"} :
           proc' = IF outcome = "run" THEN "serving" ELSE "exited"
    /\ UNCHANGED <<env_key, api_key, env_reads, youtube, local, ins, rd, hist, pureVars>>

\* insert, lines 56-65: the url of the item and its id
InsertCall ==
    /\ proc = "serving"
    /\ ins.pc \in {"idle", "returned"}
    /\ Len(youtube) < MaxLog
    /\ \E item \in SubmittedItems :
           LET got == SubmittedIds[item.url]
           IN  ins' = [IdleInsert EXCEPT
                          !.pc = IF got.ok THEN "fetch" ELSE "returned",
                          !.item = item,
                          !.id = got.id,
                          !.result = IF got.ok THEN NoOutcome ELSE Err("InvalidYoutubeUrl"),
                          !.base = youtube,
                          !.stages = <<"extract">>]
    /\ UNCHANGED <<env_key, api_key, env_reads, proc, youtube, local, rd, hist, pureVars>>

\* fetch, line 121: build_query dereferences API_KEY; the first
\* dereference reads the environment, and exits the process when the
\* variable is not set
FetchBuildQuery ==
    /\ proc = "serving"
    /\ ins.pc = "fetch"
    /\ IF api_key = "ready"
       THEN /\ ins' = [ins EXCEPT !.pc = "get"]
            /\ UNCHANGED <<api_key, env_reads, proc>>
       ELSE /\ env_reads' = env_reads + 1
            /\ IF env_key
               THEN /\ api_key' = "ready"
                    /\ ins' = [ins EXCEPT !.pc = "get"]
                    /\ UNCHANGED proc
               ELSE /\ proc' = "exited"
                    /\ UNCHANGED <<api_key, ins>>
    /\ UNCHANGED <<env_key, youtube, local, rd, hist, pureVars>>

\* fetch, lines 123-134, and serialize: the blocking GET and what is made
\* of the response
FetchGet ==
    /\ proc = "serving"
    /\ ins.pc = "get"
    /\ \E resp \in ServedResponses :
           LET out == fetch_response(resp)
               ran == IF out.kind \in {"Ok", "panic"} THEN <<"fetch", "decode">> ELSE <<"fetch">>
           IN  ins' = [ins EXCEPT
                          !.pc = IF out.kind = "Ok" THEN "store"
                                 ELSE IF out.kind = "panic" THEN "panicked"
                                 ELSE "returned",
                          !.resp = resp,
                          !.info = IF out.kind = "Ok"
                                   THEN [title |-> out.title, duration |-> out.duration]
                                   ELSE NoInfo,
                          !.result = IF out.kind \in {"Ok", "panic"} THEN NoOutcome ELSE out,
                          !.stages = ins.stages \o ran]
    /\ UNCHANGED <<env_key, api_key, env_reads, proc, youtube, local, rd, hist, pureVars>>

\* insert, lines 69-80: one statement, which writes the row or fails
InsertExecute ==
    /\ proc = "serving"
    /\ ins.pc = "store"
    /\ \E stored \in BOOLEAN :
           IF stored
           THEN /\ youtube' = add_video_sql(youtube, add_video_params(ins.id, ins.item, ins.info))
                /\ hist' = Append(hist, [vid |-> ins.id, ts |-> ins.item.ts,
                                         duration |-> ins.info.duration,
                                         title |-> ins.info.title])
                /\ ins' = [ins EXCEPT !.pc = "returned", !.result = Err("Ok"),
                                      !.stages = ins.stages \o <<"append">>]
           ELSE /\ ins' = [ins EXCEPT !.pc = "returned", !.result = Err("Sql"),
                                      !.stages = ins.stages \o <<"append">>]
                /\ UNCHANGED <<youtube, hist>>
    /\ UNCHANGED <<env_key, api_key, env_reads, proc, local, rd, pureVars>>

\* an insert into the other kind's log (local.rs)
LocalInsert ==
    /\ proc = "serving"
    /\ local < MaxLocalLog
    /\ local' = local + 1
    /\ UNCHANGED <<env_key, api_key, env_reads, proc, youtube, ins, rd, hist, pureVars>>

\* the ways the store can fail a query: the statement as a whole, or (for
\* all) the step that fetches row number `row`
NoFault == [at |-> "none", row |-> 0]

Faults(n) == {NoFault, [at |-> "query", row |-> 0]} \cup {[at |-> "row", row |-> k] : k \in 1..n}

Answer(op, out, fault) ==
    [op |-> op, kind |-> out.kind, cause |-> out.cause, songs |-> out.songs,
     fault |-> fault.at, hist |-> hist, inflight |-> ins.pc \in InFlight]

Current ==
    /\ proc = "serving"
    /\ \E order \in NewestFirst(youtube), fault \in Faults(0) :
           rd' = Answer("current", current(order, fault), fault)
    /\ UNCHANGED <<env_key, api_key, env_reads, proc, youtube, local, ins, hist, pureVars>>

Previous ==
    /\ proc = "serving"
    /\ \E order \in NewestFirst(youtube), fault \in Faults(0) :
           rd' = Answer("previous", previous(order, fault), fault)
    /\ UNCHANGED <<env_key, api_key, env_reads, proc, youtube, local, ins, hist, pureVars>>

All ==
    /\ proc = "serving"
    /\ \E order \in NewestFirst(youtube), fault \in Faults(Len(youtube)) :
           rd' = Answer("all", all(order, fault), fault)
    /\ UNCHANGED <<env_key, api_key, env_reads, proc, youtube, local, ins, hist, pureVars>>

Next ==
    \/ Main
    \/ InsertCall
    \/ FetchBuildQuery
    \/ FetchGet
    \/ InsertExecute
    \/ LocalInsert
    \/ Current
    \/ Previous
    \/ All

Spec == Init /\ [][Next]_vars

(***************************************************************************)
(* Properties of the store and the process.                                 *)
(***************************************************************************)
\* what a record was inserted with
Fields(song) ==
    [vid |-> song.vid, ts |-> song.timestamp, duration |-> song.duration, title |-> song.title]

StrictlyIncreasing(h) == \A i \in 1..(Len(h) - 1) : h[i].ts < h[i + 1].ts

\* NotFoundError: Error::Sql carrying rusqlite's QueryReturnedNoRows
IsNotFound(q) == q.kind = "Sql" /\ q.cause = "QueryReturnedNoRows"

\* C1: after N successful inserts with strictly increasing timestamps, a
\* query the store does not fail returns, for current(), the record at tN
\* (NotFoundError when N = 0) and, for previous(), the record at t(N-1)
\* (NotFoundError when N <= 1).
CurrentAndPreviousFollowTimestamps ==
    (rd.op \in {"current", "previous"} /\ rd.fault = "none" /\ StrictlyIncreasing(rd.hist)) =>
        LET n == Len(rd.hist)
            back == IF rd.op = "current" THEN 1 ELSE 2
        IN  IF n < back THEN IsNotFound(rd)
            ELSE /\ rd.kind = "Ok"
                 /\ Len(rd.songs) = 1
                 /\ Fields(rd.songs[1]) = rd.hist[n - back + 1]

PreviousAnsweredAfterTwoInserts ==
    /\ rd.op = "previous"
    /\ rd.fault = "none"
    /\ Len(rd.hist) >= 2
    /\ StrictlyIncreasing(rd.hist)
    /\ rd.kind = "Ok"

InsertStages == <<"extract", "fetch", "decode", "append">>

\* C3: an insert runs extract, fetch, decode, append in this order, each at
\* most once; a failing stage ends it with that stage's error and the log as
\* it was before the call; the log is written only after the metadata is
\* resolved, by one new row that carries the caller's timestamp.
InsertFailsWithoutWriting ==
    LET kind == ins.result.kind
        n == Len(ins.base)
    IN  /\ Len(ins.stages) <= Len(InsertStages)
        /\ ins.stages = SubSeq(InsertStages, 1, Len(ins.stages))
        /\ (ins.pc \in InFlight \cup {"panicked"}) => youtube = ins.base
        /\ (ins.pc = "returned" /\ kind # "Ok") => youtube = ins.base
        /\ (ins.pc = "returned" /\ kind = "InvalidYoutubeUrl") =>
               (ins.stages = <<"extract">> /\ ~SubmittedIds[ins.item.url].ok)
        /\ (ins.pc = "returned" /\ ~SubmittedIds[ins.item.url].ok) =>
               kind = "InvalidYoutubeUrl"
        /\ (ins.pc = "returned" /\ kind \in {"HttpClient", "HttpResponse", "Serialize",
                                             "InvalidYoutubeData"}) =>
               ins.stages = <<"extract", "fetch">>
        /\ (ins.pc = "returned" /\ ins.resp.transport = "error") => kind = "HttpClient"
        /\ (ins.pc = "returned" /\ ins.resp.transport = "ok" /\ ~is_success(ins.resp.status)) =>
               /\ kind = "HttpResponse"
               /\ ins.result.status = ins.resp.status
               /\ ins.result.reason = ins.resp.reason
        /\ (/\ ins.pc = "returned"
            /\ ins.resp.transport = "ok"
            /\ is_success(ins.resp.status)
            /\ ins.resp.body.hasItems
            /\ ins.resp.body.items = <<>>) => kind = "InvalidYoutubeData"
        /\ (ins.pc = "returned" /\ ins.resp.transport = "ok" /\ ~ins.resp.body.json
            /\ is_success(ins.resp.status)) => kind = "Serialize"
        /\ (ins.pc = "returned" /\ kind = "Sql") => ins.stages = InsertStages
        /\ (ins.pc = "returned" /\ kind = "Ok") =>
               /\ ins.stages = InsertStages
               /\ Len(youtube) = n + 1
               /\ SubSeq(youtube, 1, n) = ins.base
               /\ youtube[n + 1][3] = ins.item.ts

NotFoundResponseLeavesLog ==
    /\ ins.pc = "returned"
    /\ ins.result.kind = "HttpResponse"
    /\ ins.result.status = 404
    /\ ins.result.reason = "Not Found"
    /\ Len(ins.base) >= 1
    /\ youtube = ins.base

\* every column of the record is set
Complete(song) ==
    /\ song.id >= 1
    /\ Len(song.vid) = IdLen
    /\ song.timestamp \in Timestamps
    /\ song.duration >= 0
    /\ song.title # ""

RequestServed == rd.op # "none" \/ ins.pc = "returned"

\* C9: the credential is resolved at process start: without the environment
\* variable the process halts before any request is served.
NoRequestServedWithoutCredential == RequestServed => env_key

\* the part of C9 the code does satisfy: the variable is read at most once
CredentialReadAtMostOnce == env_reads <= 1

====
